---- MODULE Spec2Model ----
(***************************************************************************)
(* A model of the Maven release automation script: release.py driving the  *)
(* functions of release_common.py.                                         *)
(*                                                                         *)
(* Strings are sequences of pieces (TLA+ strings that are never looked     *)
(* into); every marker the code searches for ('Dmessage', '%s', '-',       *)
(* '-SNAPSHOT', ...) is a piece or a run of pieces of its own, so that     *)
(* str.find, str.rfind, str.endswith, str.rstrip and the % operator are    *)
(* computed on the pieces as Python computes them on the characters.       *)
(* An optional value (an argparse attribute that may be None) is <<>> for  *)
(* None and <<s>> for the string s.                                        *)
(***************************************************************************)
EXTENDS Integers, Sequences, FiniteSets, TLC

\* ------------------------------------------------------------------ values

None == <<>>

Some(s) == <<s>>

\* Python's truth value of an optional string: None and '' are false.
Truthy(opt) == opt # None /\ opt[1] # <<>>

\* str.endswith(suffix)
EndsWith(s, suffix) ==
    /\ Len(s) >= Len(suffix)
    /\ SubSeq(s, Len(s) - Len(suffix) + 1, Len(s)) = suffix

\* str.find(marker) > -1
Contains(s, marker) ==
    \E i \in 1..(Len(s) - Len(marker) + 1) : SubSeq(s, i, i + Len(marker) - 1) = marker

\* str.rfind(piece), 0-based, -1 when absent
RFind(s, piece) ==
    IF \E i \in 1..Len(s) : s[i] = piece
    THEN (CHOOSE i \in 1..Len(s) : s[i] = piece /\ \A j \in (i + 1)..Len(s) : s[j] # piece) - 1
    ELSE -1

Whitespace == {" ", "\n", "\t", "\r"}

RECURSIVE RStrip(_)
\* str.rstrip()
RStrip(s) ==
    IF s # <<>> /\ s[Len(s)] \in Whitespace THEN RStrip(SubSeq(s, 1, Len(s) - 1)) ELSE s

RECURSIVE LStrip(_)
LStrip(s) ==
    IF s # <<>> /\ s[1] \in Whitespace THEN LStrip(SubSeq(s, 2, Len(s))) ELSE s

\* str.strip()
Strip(s) == LStrip(RStrip(s))

RECURSIVE Format(_, _)
\* template % value, for a template whose only conversions are %s
Format(s, value) ==
    IF s = <<>> THEN <<>>
    ELSE IF s[1] = "%s" THEN value \o Format(Tail(s), value)
    ELSE <<s[1]>> \o Format(Tail(s), value)

\* ListIndex as a search that answers -1 for an absent x, which a slice then
\* reads as the last place
ListIndexOrLast(list, x) ==
    IF \E i \in 1..Len(list) : list[i] = x
    THEN CHOOSE i \in 1..Len(list) : list[i] = x /\ \A j \in 1..(i - 1) : list[j] # x
    ELSE Len(list)

\* list.index(x), 1-based; 0 stands for the ValueError of an absent x
ListIndex(list, x) ==
    IF \E i \in 1..Len(list) : list[i] = x
    THEN CHOOSE i \in 1..Len(list) : list[i] = x /\ \A j \in 1..(i - 1) : list[j] # x
    ELSE 0

\* ------------------------------------------------------------- constants

DEVELOP_BRANCH_NAME == <<"master">>
RELEASE_BRANCH_NAME == <<"release/", "%s">>
RELEASE_BRANCH_VERSION == <<"%s", ".1", "-SNAPSHOT">>

PUSH_CHANGES_FALSE == <<"-DpushChanges", "=", "false">>

MVN_USE_RELEASES ==
    << <<"versions:use-releases">>, <<"scm:checkin">>, <<"-DgenerateBackupPoms=false">>,
       <<"-", "Dmessage", "=[maven-versions-plugin] set release versions for ", "%s",
         " dependencies">> >>
MVN_USE_RELEASES_TEST ==
    << <<"versions:use-releases">>, <<"scm:checkin">>, <<"-DgenerateBackupPoms=false">>,
       <<"-", "Dmessage", "=[maven-versions-plugin] set release versions for ", "%s",
         " dependencies">>,
       PUSH_CHANGES_FALSE >>

MVN_RELEASE == << <<"release:clean">>, <<"release:prepare">>, <<"release:perform">> >>
MVN_RELEASE_TEST == << <<"release:clean">>, <<"release:prepare">>, PUSH_CHANGES_FALSE >>

MVN_USE_NEXT_SNAPSHOTS ==
    << <<"versions:use-next-snapshots">>, <<"scm:checkin">>, <<"-DgenerateBackupPoms=false">>,
       <<"-", "Dmessage", "=[maven-versions-plugin] set next-snapshots versions for ", "%s",
         " dependencies">> >>
MVN_USE_NEXT_SNAPSHOTS_TEST ==
    << <<"versions:use-next-snapshots">>, <<"scm:checkin">>, <<"-DgenerateBackupPoms=false">>,
       <<"-", "Dmessage", "=[maven-versions-plugin] set next-snapshots versions for ", "%s",
         " dependencies">>,
       PUSH_CHANGES_FALSE >>

MVN_RELEASE_BRANCH ==
    << <<"release:branch">>, <<"-DbranchName", "=", "%s">>, <<"-DreleaseVersion", "=", "%s">>,
       <<"-DupdateBranchVersions=true">>, <<"-DupdateWorkingCopyVersions=false">>,
       <<"-DautoVersionSubmodules=true">> >>
MVN_RELEASE_BRANCH_TEST ==
    << <<"release:branch">>, <<"-DbranchName", "=", "%s">>, <<"-DreleaseVersion", "=", "%s">>,
       <<"-DupdateBranchVersions=true">>, <<"-DupdateWorkingCopyVersions=false">>,
       <<"-DautoVersionSubmodules=true">>, PUSH_CHANGES_FALSE >>

MVN_UPDATE_VERSIONS ==
    << <<"release:update-versions">>, <<"scm:checkin">>,
       <<"-", "Dmessage", "=[maven-release-plugin] update versions of ", "%s",
         " in release branch">>,
       <<"-DautoVersionSubmodules=true">>, <<"-DdevelopmentVersion", "=", "%s">> >>
MVN_UPDATE_VERSIONS_TEST ==
    << <<"release:update-versions">>, <<"scm:checkin">>,
       <<"-", "Dmessage", "=[maven-release-plugin] update versions of ", "%s",
         " in release branch">>,
       <<"-DautoVersionSubmodules=true">>, <<"-DdevelopmentVersion", "=", "%s">>,
       PUSH_CHANGES_FALSE >>

MVN_DEPLOY == << <<"clean">>, <<"deploy">>, <<"-DskipTests">> >>
MVN_DEPLOY_TEST == << <<"clean">>, <<"deploy">>, <<"-DskipTests">> >>

GIT_FIND_CLOSEST_TAG == << <<"git">>, <<"describe">>, <<"--abbrev=0">> >>
GIT_CHECKOUT_BRANCH == << <<"git">>, <<"checkout">>, <<"%s">> >>
GIT_FIND_CURRENT_BRANCH == << <<"git">>, <<"rev-parse">>, <<"--abbrev-ref">>, <<"HEAD">> >>

\* The module-level lists of release_common.py as the interpreter holds them
\* after import: mutable objects, looked up by name.
InitialTemplates ==
    [ MVN_USE_RELEASES |-> MVN_USE_RELEASES,
      MVN_USE_RELEASES_TEST |-> MVN_USE_RELEASES_TEST,
      MVN_RELEASE |-> MVN_RELEASE,
      MVN_RELEASE_TEST |-> MVN_RELEASE_TEST,
      MVN_USE_NEXT_SNAPSHOTS |-> MVN_USE_NEXT_SNAPSHOTS,
      MVN_USE_NEXT_SNAPSHOTS_TEST |-> MVN_USE_NEXT_SNAPSHOTS_TEST,
      MVN_RELEASE_BRANCH |-> MVN_RELEASE_BRANCH,
      MVN_RELEASE_BRANCH_TEST |-> MVN_RELEASE_BRANCH_TEST,
      MVN_UPDATE_VERSIONS |-> MVN_UPDATE_VERSIONS,
      MVN_UPDATE_VERSIONS_TEST |-> MVN_UPDATE_VERSIONS_TEST,
      MVN_DEPLOY |-> MVN_DEPLOY,
      MVN_DEPLOY_TEST |-> MVN_DEPLOY_TEST,
      GIT_FIND_CLOSEST_TAG |-> GIT_FIND_CLOSEST_TAG,
      GIT_CHECKOUT_BRANCH |-> GIT_CHECKOUT_BRANCH,
      GIT_FIND_CURRENT_BRANCH |-> GIT_FIND_CURRENT_BRANCH ]

\* release.py's list of components, dependencies first
ALL_COMPONENTS == << <<"project-a">>, <<"project-B">>, <<"project-C">> >>

\* ------------------------------------------------------- pure functions

\* A Python list as a step holds it: its elements, and the name of the
\* module-level template it is (alias), or "" for a list of the step's own.
ListCopy(tpls, name) == [alias |-> "", val |-> tpls[name]]

ListRef(tpls, name) == [alias |-> name, val |-> tpls[name]]

\* list.append(x): acts on the object, so on the template when the list is one
ListAppend(st, x) ==
    [ tpls |-> IF st.args.alias = "" THEN st.tpls
               ELSE [st.tpls EXCEPT ![st.args.alias] = Append(@, x)],
      args |-> [st.args EXCEPT !.val = Append(@, x)] ]

\* A new list: each argument the predicate (a substring search for marker)
\* selects is formatted with value, the others are passed on.
resolve_arguments_placeholder(arguments, marker, value) ==
    [ alias |-> "",
      val |-> [i \in 1..Len(arguments.val) |->
                 IF Contains(arguments.val[i], marker)
                 THEN Format(arguments.val[i], value)
                 ELSE arguments.val[i]] ]

SCRIPT_DIR == "<script-dir>"

get_absolute_pom_path(path, component) ==
    <<SCRIPT_DIR, "/", path, "/">> \o component \o <<"/", "pom.xml">>

use_releases_args(tpls, component, options) ==
    LET args == IF options.test_mode THEN ListCopy(tpls, "MVN_USE_RELEASES_TEST")
                ELSE ListCopy(tpls, "MVN_USE_RELEASES")
    IN  resolve_arguments_placeholder(args, <<"Dmessage">>, component)

use_next_snapshots_args(tpls, component, options) ==
    LET args == IF options.test_mode THEN ListCopy(tpls, "MVN_USE_NEXT_SNAPSHOTS_TEST")
                ELSE ListCopy(tpls, "MVN_USE_NEXT_SNAPSHOTS")
    IN  resolve_arguments_placeholder(args, <<"Dmessage">>, component)

\* perform_release_list without the [:] copies
perform_release_list_aliased(tpls, options) ==
    IF options.test_mode THEN ListRef(tpls, "MVN_RELEASE_TEST") ELSE ListRef(tpls, "MVN_RELEASE")

\* The list perform_release starts from: a copy of the template.
perform_release_list(tpls, options) ==
    IF options.test_mode THEN ListCopy(tpls, "MVN_RELEASE_TEST") ELSE ListCopy(tpls, "MVN_RELEASE")

\* perform_release's argument list, and the templates after its appends
perform_release_args(tpls, options) ==
    LET s0 == [tpls |-> tpls, args |-> perform_release_list(tpls, options)]
        s1 == IF Truthy(options.dev_version)
              THEN ListAppend(s0, <<"-DdevelopmentVersion", "=">> \o options.dev_version[1])
              ELSE s0
        s2 == IF Truthy(options.release_version)
              THEN ListAppend(s1, <<"-DreleaseVersion", "=">> \o options.release_version[1])
              ELSE s1
    IN  s2

deploy_args(tpls, options) ==
    IF options.test_mode THEN ListCopy(tpls, "MVN_DEPLOY_TEST") ELSE ListRef(tpls, "MVN_DEPLOY")

\* deploy_component without its guard
deploy_enabled_always(options) == TRUE

\* deploy_component's guard: the deployment runs outside test mode only
deploy_enabled(options) == ~options.test_mode

branch_name_of(release) == Format(RELEASE_BRANCH_NAME, release)

branch_version_of(release) == Format(RELEASE_BRANCH_VERSION, release)

\* create_release_branch_args with the production template in either mode
create_release_branch_args_production(tpls, release, options) ==
    LET args0 == ListRef(tpls, "MVN_RELEASE_BRANCH")
        args1 == resolve_arguments_placeholder(args0, <<"-DbranchName">>, branch_name_of(release))
    IN  resolve_arguments_placeholder(args1, <<"-DreleaseVersion">>, branch_version_of(release))

create_release_branch_args(tpls, release, options) ==
    LET args0 == IF options.test_mode THEN ListCopy(tpls, "MVN_RELEASE_BRANCH_TEST")
                 ELSE ListRef(tpls, "MVN_RELEASE_BRANCH")
        args1 == resolve_arguments_placeholder(args0, <<"-DbranchName">>, branch_name_of(release))
    IN  resolve_arguments_placeholder(args1, <<"-DreleaseVersion">>, branch_version_of(release))

checkout_branch_args(tpls, branch_name) ==
    resolve_arguments_placeholder(ListCopy(tpls, "GIT_CHECKOUT_BRANCH"), <<"%s">>, branch_name)

update_project_version_args(tpls, component, release, options) ==
    LET args0 == IF options.test_mode THEN ListCopy(tpls, "MVN_UPDATE_VERSIONS_TEST")
                 ELSE ListRef(tpls, "MVN_UPDATE_VERSIONS")
        args1 == resolve_arguments_placeholder(args0, <<"-", "Dmessage">>, component)
    IN  resolve_arguments_placeholder(args1, <<"-DdevelopmentVersion">>, branch_version_of(release))

\* The release version a tag names: what follows its last '-', right-stripped
version_of_tag(tag) == RStrip(SubSeq(tag, RFind(tag, "-") + 2, Len(tag)))

\* set_scm_tag on a descriptor, held as the contents of its <tag> elements:
\* every match is rewritten; without a match the file is left alone.
set_scm_tag(pom, value) == [i \in 1..Len(pom) |-> value]

\* define_components_to_release with start_from looked at before only
define_components_start_from_first(all_components, options) ==
    IF ~Truthy(options.only) /\ ~Truthy(options.start_from)
    THEN [raised |-> FALSE, components |-> all_components, all_components |-> all_components]
    ELSE IF Truthy(options.start_from)
    THEN LET index == ListIndex(all_components, options.start_from[1])
         IN  IF index = 0
             THEN [raised |-> TRUE, components |-> <<>>, all_components |-> all_components]
             ELSE [raised |-> FALSE,
                   components |-> SubSeq(all_components, index, Len(all_components)),
                   all_components |-> all_components]
    ELSE [raised |-> FALSE, components |-> <<options.only[1]>>, all_components |-> all_components]

\* The components to release, or the ValueError of list.index; all_components
\* is the argument list after the call.
define_components_to_release(all_components, options) ==
    IF ~Truthy(options.only) /\ ~Truthy(options.start_from)
    THEN [raised |-> FALSE, components |-> all_components, all_components |-> all_components]
    ELSE IF Truthy(options.only)
    THEN [raised |-> FALSE, components |-> <<options.only[1]>>, all_components |-> all_components]
    ELSE LET index == ListIndex(all_components, options.start_from[1])
         IN  IF index = 0
             THEN [raised |-> TRUE, components |-> <<>>, all_components |-> all_components]
             ELSE [raised |-> FALSE,
                   components |-> SubSeq(all_components, index, Len(all_components)),
                   all_components |-> all_components]

\* dev_version_valid looking for the marker anywhere in the version
dev_version_valid_anywhere(options) ==
    ~(Truthy(options.dev_version) /\ ~Contains(options.dev_version[1], <<"-SNAPSHOT">>))

\* parse_options' check of the development version
dev_version_valid(options) ==
    ~(Truthy(options.dev_version) /\ ~EndsWith(options.dev_version[1], <<"-SNAPSHOT">>))

\* argparse's test_mode: action='store_true' with default=True is True with
\* and without -t on the command line.
argparse_test_mode(flag_given) == IF flag_given THEN TRUE ELSE TRUE

\* ------------------------------------------------------------------ state

VARIABLES
    options,              \* the argparse namespace parse_options returns
    all_components,       \* release.py's ALL_COMPONENTS list object
    components,           \* the working set
    pc,                   \* the statement the script is at
    idx,                  \* position of the loop the script is in (1-based)
    release,              \* find_release_version's result in the running function
    templates,            \* the module-level MVN_* and GIT_* list objects
    develop_branch_name,  \* the global DEVELOP_BRANCH_NAME
    poms,                 \* per component, the contents of its pom's <tag> elements
    git_head,             \* the branch the working copy is on
    calls,                \* every subprocess spawned so far, in order
    log,                  \* the records LOG received, in order
    outcome               \* how the script ended, "running" until then

vars == <<options, all_components, components, pc, idx, release, templates,
          develop_branch_name, poms, git_head, calls, log, outcome>>

\* ----------------------------------------------------------------- inputs

UNKNOWN_COMPONENT == <<"project-Z">>

ComponentNames == {ALL_COMPONENTS[i] : i \in 1..Len(ALL_COMPONENTS)}

\* Values of --only and --start-from: absent, empty, a component, a stranger
NameOptions == {None, Some(<<>>)} \cup {Some(c) : c \in ComponentNames \cup {UNKNOWN_COMPONENT}}

\* Values of --dev_version
DevVersionOptions ==
    {None, Some(<<>>), Some(<<"1.5.0", "-SNAPSHOT">>), Some(<<"1.5.0">>),
     Some(<<"1.5.0", "-SNAPSHOT", ".2">>)}

\* Values of --release_version
ReleaseVersionOptions == {None, Some(<<>>), Some(<<"1.4.2">>)}

\* What `git describe --abbrev=0` may print: the nearest tag of the commit
\* the working copy is at, which the model does not know.
TagOutputs == {<<"v2.3.0", "-", "1.4.2", "\n">>, <<"2.0.0", "\n">>}

\* The <tag> elements a component's pom.xml may hold
PomOptions == {<<>>, << <<"HEAD">> >>}

\* Exit statuses of a subprocess
ExitStatuses == {0, 1}

Namespaces(test_modes) ==
    [ release_branch_only : BOOLEAN,
      dev_version : DevVersionOptions,
      no_release_branch : BOOLEAN,
      only : NameOptions,
      release_version : ReleaseVersionOptions,
      start_from : NameOptions,
      test_mode : test_modes ]

\* The state release.py is in when it calls parse_options, argparse's
\* namespace drawn from ns.
InitWith(ns) ==
    /\ options \in ns
    /\ all_components = ALL_COMPONENTS
    /\ components = <<>>
    /\ pc = "parse_options"
    /\ idx = 0
    /\ release = <<>>
    /\ templates = InitialTemplates
    /\ develop_branch_name = DEVELOP_BRANCH_NAME
    /\ poms \in [ComponentNames -> PomOptions]
    /\ git_head = <<"master">>
    /\ calls = <<>>
    /\ log = <<>>
    /\ outcome = "running"

\* The script as started from a command line
Init == InitWith(Namespaces({argparse_test_mode(flag) : flag \in BOOLEAN}))

\* The functions of release_common driven as release.py drives them, by a
\* caller that sets test_mode itself
InitLib == InitWith(Namespaces(BOOLEAN))

\* ---------------------------------------------------------------- helpers

LogRecord(level, message, subject) == [level |-> level, message |-> message, subject |-> subject]

\* An uncaught exception ends the script.
Raise(kind) == pc' = "done" /\ outcome' = kind

\* exec_os_command / exec_os_command_with_output: the subprocess is spawned
\* and waited for.
Spawn(argv, step, component, status) ==
    Append(calls, [argv |-> argv, step |-> step, component |-> component, status |-> status])

\* exec_maven_command catching CalledProcessError without raising it again
exec_maven_command_swallowing(pom_path, component, args, step, status) ==
    [ calls |-> Spawn(<< <<"mvn">>, <<"-B">>, <<"-U">>, <<"-f">>, pom_path >> \o args.val,
                      step, component, status),
      log |-> IF status # 0
              THEN <<LogRecord("ERROR", "An error occurred while releasing %s, release stops",
                               component)>>
              ELSE <<>>,
      raised |-> FALSE ]

\* exec_maven_command without its try/except: the failure leaves unlogged
exec_maven_command_unlogged(pom_path, component, args, step, status) ==
    [ calls |-> Spawn(<< <<"mvn">>, <<"-B">>, <<"-U">>, <<"-f">>, pom_path >> \o args.val,
                      step, component, status),
      log |-> <<>>,
      raised |-> status # 0 ]

\* exec_maven_command: the calls and the log after it, and whether
\* CalledProcessError leaves it
exec_maven_command(pom_path, component, args, step, status) ==
    [ calls |-> Spawn(<< <<"mvn">>, <<"-B">>, <<"-U">>, <<"-f">>, pom_path >> \o args.val,
                      step, component, status),
      log |-> IF status # 0
              THEN <<LogRecord("ERROR", "An error occurred while releasing %s, release stops",
                               component)>>
              ELSE <<>>,
      raised |-> status # 0 ]

\* release.py after its release loop: the branch phase, or the end
AfterReleaseLoop ==
    IF ~options.no_release_branch
    THEN IF components' = <<>>
         THEN Raise("IndexError") /\ idx' = 0
         ELSE pc' = "find_release_version" /\ idx' = 1 /\ outcome' = outcome
    ELSE pc' = "done" /\ idx' = 0 /\ outcome' = "ok"

\* AfterUpdate for a loop over components[2:]
AfterUpdateFromThird ==
    IF idx + 1 < Len(components)
    THEN pc' = "find_release_version" /\ idx' = idx + 2 /\ outcome' = outcome
    ELSE pc' = "done" /\ idx' = idx /\ outcome' = "ok"

\* The next component of the loop over components[1:], or the end
AfterUpdate ==
    IF idx < Len(components)
    THEN pc' = "find_release_version" /\ idx' = idx + 1 /\ outcome' = outcome
    ELSE pc' = "done" /\ idx' = idx /\ outcome' = "ok"

\* ---------------------------------------------------------------- actions

\* parse_options, after argparse has built the namespace
ParseOptions ==
    /\ pc = "parse_options"
    /\ IF ~dev_version_valid(options)
       THEN /\ log' = Append(log, LogRecord("ERROR", "Development version should end with -SNAPSHOT", <<>>))
            /\ Raise("ValueError: parse_options")
       ELSE /\ log' = IF ~options.test_mode
                      THEN Append(log, LogRecord("WARN", "Production release will be started in 5 seconds", <<>>))
                      ELSE log
            /\ pc' = "define_components_to_release"
            /\ outcome' = outcome
    /\ UNCHANGED <<options, all_components, components, idx, release, templates,
                   develop_branch_name, poms, git_head, calls>>

\* define_components_to_release, and release.py's choice of what follows
DefineComponentsToRelease ==
    /\ pc = "define_components_to_release"
    /\ LET r == define_components_to_release(all_components, options)
       IN  /\ all_components' = r.all_components
           /\ IF r.raised
              THEN /\ components' = components
                   /\ log' = log
                   /\ idx' = idx
                   /\ Raise("ValueError: list.index")
              ELSE /\ components' = r.components
                   /\ log' = Append(log, LogRecord("INFO", "components to be released: %s", r.components))
                   /\ IF ~options.release_branch_only /\ r.components # <<>>
                      THEN pc' = "use_releases" /\ idx' = 1 /\ outcome' = outcome
                      ELSE AfterReleaseLoop
    /\ UNCHANGED <<options, release, templates, develop_branch_name, poms, git_head, calls>>

\* release_component up to the end of use_releases
UseReleases ==
    /\ pc = "use_releases"
    /\ \E status \in ExitStatuses :
         LET component == components[idx]
             pom_path == get_absolute_pom_path("..", component)
             args == use_releases_args(templates, component, options)
             r == exec_maven_command(pom_path, component, args, "use_releases", status)
         IN  /\ calls' = r.calls
             /\ IF r.raised
                THEN /\ log' = log \o <<LogRecord("INFO", "starting to release %s", component),
                                        LogRecord("INFO", "updating snapshot versions of %s dependencies to release...", component)>>
                               \o r.log
                     /\ Raise("CalledProcessError")
                ELSE /\ log' = log \o <<LogRecord("INFO", "starting to release %s", component),
                                        LogRecord("INFO", "updating snapshot versions of %s dependencies to release...", component),
                                        LogRecord("INFO", "snapshot versions updated to release", <<>>)>>
                     /\ pc' = "perform_release"
                     /\ outcome' = outcome
    /\ UNCHANGED <<options, all_components, components, idx, release, templates,
                   develop_branch_name, poms, git_head>>

\* perform_release and the rest of release_component, then release.py's loop
PerformRelease ==
    /\ pc = "perform_release"
    /\ \E status \in ExitStatuses :
         LET component == components[idx]
             pom_path == get_absolute_pom_path("..", component)
             built == perform_release_args(templates, options)
             r == exec_maven_command(pom_path, component, built.args, "perform_release", status)
         IN  /\ templates' = built.tpls
             /\ calls' = r.calls
             /\ UNCHANGED components
             /\ IF r.raised
                THEN /\ log' = log \o <<LogRecord("INFO", "releasing %s", component)>> \o r.log
                     /\ idx' = idx
                     /\ Raise("CalledProcessError")
                ELSE /\ log' = log \o <<LogRecord("INFO", "releasing %s", component),
                                        LogRecord("INFO", "%s release performed successfully", component),
                                        LogRecord("INFO", "release of %s completed", component)>>
                     /\ IF idx < Len(components)
                        THEN pc' = "use_releases" /\ idx' = idx + 1 /\ outcome' = outcome
                        ELSE AfterReleaseLoop
    /\ UNCHANGED <<options, all_components, release, develop_branch_name, poms, git_head>>

\* find_release_version, called by create_release_branch (for components[0])
\* and by update_project_version (for each of components[1:])
FindReleaseVersion ==
    /\ pc = "find_release_version"
    /\ IF Truthy(options.release_version)
       THEN /\ release' = options.release_version[1]
            /\ calls' = calls
            /\ pc' = IF idx = 1 THEN "release_branch" ELSE "update_versions"
            /\ outcome' = outcome
       ELSE \E status \in ExitStatuses, tag \in TagOutputs :
              /\ calls' = Spawn(templates["GIT_FIND_CLOSEST_TAG"], "find_closest_tag",
                                components[idx], status)
              /\ IF status # 0
                 THEN release' = release /\ Raise("CalledProcessError")
                 ELSE /\ release' = version_of_tag(tag)
                      /\ pc' = IF idx = 1 THEN "release_branch" ELSE "update_versions"
                      /\ outcome' = outcome
    /\ UNCHANGED <<options, all_components, components, idx, templates,
                   develop_branch_name, poms, git_head, log>>

\* create_release_branch up to the end of its Maven command
ReleaseBranch ==
    /\ pc = "release_branch"
    /\ \E status \in ExitStatuses :
         LET component == components[idx]
             branch_name == branch_name_of(release)
             pom_path == get_absolute_pom_path("..", component)
             args == create_release_branch_args(templates, release, options)
             r == exec_maven_command(pom_path, component, args, "release_branch", status)
         IN  /\ calls' = r.calls
             /\ IF r.raised
                THEN /\ log' = log \o <<LogRecord("INFO", "creating release branch %s", branch_name)>>
                               \o r.log
                     /\ Raise("CalledProcessError")
                ELSE /\ log' = log \o <<LogRecord("INFO", "creating release branch %s", branch_name),
                                        LogRecord("INFO", "release branch %s created", branch_name)>>
                     /\ pc' = "find_current_branch"
                     /\ outcome' = outcome
    /\ UNCHANGED <<options, all_components, components, idx, release, templates,
                   develop_branch_name, poms, git_head>>

\* create_release_branch's lookup of the current branch
FindCurrentBranch ==
    /\ pc = "find_current_branch"
    /\ \E status \in ExitStatuses :
         /\ calls' = Spawn(templates["GIT_FIND_CURRENT_BRANCH"], "find_current_branch",
                           components[idx], status)
         /\ IF status # 0
            THEN develop_branch_name' = develop_branch_name /\ Raise("CalledProcessError")
            ELSE /\ develop_branch_name' = Strip(git_head \o <<"\n">>)
                 /\ pc' = "checkout_branch"
                 /\ outcome' = outcome
    /\ UNCHANGED <<options, all_components, components, idx, release, templates,
                   poms, git_head, log>>

\* checkout_branch, called by create_release_branch
CheckoutBranch ==
    /\ pc = "checkout_branch"
    /\ \E status \in ExitStatuses :
         LET branch_name == branch_name_of(release)
             args == checkout_branch_args(templates, branch_name)
         IN  /\ calls' = Spawn(args.val, "checkout_branch", components[idx], status)
             /\ IF status # 0
                THEN git_head' = git_head /\ log' = log /\ Raise("CalledProcessError")
                ELSE /\ git_head' = branch_name
                     /\ log' = Append(log, LogRecord("INFO", "checked out branch %s", branch_name))
                     /\ pc' = "deploy_component"
                     /\ outcome' = outcome
    /\ UNCHANGED <<options, all_components, components, idx, release, templates,
                   develop_branch_name, poms>>

\* deploy_component, called last by create_release_branch and by
\* update_project_version, then release.py's loop over components[1:]
DeployComponent ==
    /\ pc = "deploy_component"
    /\ IF deploy_enabled(options)
       THEN \E status \in ExitStatuses :
              LET component == components[idx]
                  pom_path == get_absolute_pom_path("..", component)
                  r == exec_maven_command(pom_path, component, deploy_args(templates, options),
                                          "deploy", status)
              IN  /\ calls' = r.calls
                  /\ IF r.raised
                     THEN /\ log' = log \o <<LogRecord("INFO", "deploying %s", component)>> \o r.log
                          /\ idx' = idx
                          /\ Raise("CalledProcessError")
                     ELSE /\ log' = log \o <<LogRecord("INFO", "deploying %s", component),
                                             LogRecord("INFO", "%s deployed", component)>>
                          /\ AfterUpdate
       ELSE /\ calls' = calls
            /\ log' = log
            /\ AfterUpdate
    /\ UNCHANGED <<options, all_components, components, release, templates,
                   develop_branch_name, poms, git_head>>

\* update_project_version from set_scm_tag to the end of its Maven command
UpdateVersions ==
    /\ pc = "update_versions"
    /\ LET component == components[idx]
           branch_version == branch_version_of(release)
           branch_name == branch_name_of(release)
           pom_path == get_absolute_pom_path("..", component)
           args == update_project_version_args(templates, component, release, options)
           info == LogRecord("INFO", "Updating version of component %s to %s", component)
       IN  IF component \notin DOMAIN poms
           THEN /\ log' = Append(log, info)
                /\ Raise("IOError")
                /\ UNCHANGED <<poms, calls>>
           ELSE \E status \in ExitStatuses :
                  LET tagged == poms[component] # <<>>
                      warn == IF tagged THEN <<>>
                              ELSE <<LogRecord("WARN", "SCM tag was not set in %s, update it manually", pom_path)>>
                      r == exec_maven_command(pom_path, component, args, "update_versions", status)
                  IN  /\ poms' = [poms EXCEPT ![component] = set_scm_tag(@, branch_name)]
                      /\ calls' = r.calls
                      /\ IF r.raised
                         THEN /\ log' = log \o <<info>> \o warn \o r.log
                              /\ Raise("CalledProcessError")
                         ELSE /\ log' = log \o <<info>> \o warn
                                        \o <<LogRecord("INFO", "%s project version updated", component)>>
                              /\ pc' = "deploy_component"
                              /\ outcome' = outcome
    /\ UNCHANGED <<options, all_components, components, idx, release, templates,
                   develop_branch_name, git_head>>

Next ==
    \/ ParseOptions
    \/ DefineComponentsToRelease
    \/ UseReleases
    \/ PerformRelease
    \/ FindReleaseVersion
    \/ ReleaseBranch
    \/ FindCurrentBranch
    \/ CheckoutBranch
    \/ DeployComponent
    \/ UpdateVersions

\* release.py started from a command line
Spec == Init /\ [][Next]_vars

\* release.py's sequence of calls with a namespace whose test_mode the caller set
SpecLib == InitLib /\ [][Next]_vars

\* ----------------------------------------------------- reading the calls

IsPrefix(s, t) == Len(s) <= Len(t) /\ SubSeq(t, 1, Len(s)) = s

HasToken(call, token) == \E k \in 1..Len(call.argv) : call.argv[k] = token

IsMvn(call) == call.argv[1] = <<"mvn">>

IsGit(call) == call.argv[1] = <<"git">>

\* What a spawned command line asks of its tool
Lifecycle(call) ==
    IF IsMvn(call)
    THEN CASE HasToken(call, <<"versions:use-releases">>) -> "use-releases"
           [] HasToken(call, <<"release:prepare">>) -> "perform-release"
           [] HasToken(call, <<"versions:use-next-snapshots">>) -> "use-next-snapshots"
           [] HasToken(call, <<"deploy">>) -> "deploy"
           [] HasToken(call, <<"release:branch">>) -> "branch"
           [] HasToken(call, <<"release:update-versions">>) -> "update-versions"
           [] OTHER -> "other"
    ELSE CASE call.argv[2] = <<"describe">> -> "nearest-tag"
           [] call.argv[2] = <<"rev-parse">> -> "current-branch"
           [] call.argv[2] = <<"checkout">> -> "checkout"
           [] OTHER -> "other"

\* The descriptor a build-tool command line targets (its -f argument)
PomOf(call) == call.argv[5]

PomPath(component) == get_absolute_pom_path("..", component)

Failed(call) == call.status # 0

\* An option counts as set (supplied) when it was given a non-empty value:
\* the script reads its options by their truth value throughout.
IsSet(opt) == opt # None /\ opt[1] # <<>>

\* The working set has been selected.
Selected ==
    /\ pc \notin {"parse_options", "define_components_to_release"}
    /\ outcome \notin {"ValueError: parse_options", "ValueError: list.index"}

\* ---------------------------------------------------------------- C1

ReleaseStepCalls ==
    SelectSeq(calls, LAMBDA c : Lifecycle(c) \in {"use-releases", "perform-release", "use-next-snapshots"})

ReleaseStepTrace == [k \in 1..Len(ReleaseStepCalls) |->
                       <<Lifecycle(ReleaseStepCalls[k]), PomOf(ReleaseStepCalls[k])>>]

ThreeSteps == <<"use-releases", "perform-release", "use-next-snapshots">>

ThreeStepsPerComponent == [k \in 1..(3 * Len(components)) |->
                             <<ThreeSteps[((k - 1) % 3) + 1], PomPath(components[((k - 1) \div 3) + 1])>>]

TwoStepsPerComponent == [k \in 1..(2 * Len(components)) |->
                           <<ThreeSteps[((k - 1) % 2) + 1], PomPath(components[((k - 1) \div 2) + 1])>>]

\* C1: in test mode with the release phase enabled, the release steps invoked
\* so far are always the beginning of: use-releases, perform-release,
\* use-next-snapshots for the first component of the working set, then the
\* same three for the second, and so on; a run that ends without failure has
\* invoked all of them.
C1_ThreeStepsInWorkingSetOrder ==
    (options.test_mode /\ ~options.release_branch_only) =>
        /\ IsPrefix(ReleaseStepTrace, ThreeStepsPerComponent)
        /\ (outcome = "ok" => ReleaseStepTrace = ThreeStepsPerComponent)

\* What release.py does instead (C1): use-releases then perform-release for
\* each component in working-set order, and use-next-snapshots never.
C1_TwoStepsInWorkingSetOrder ==
    (options.test_mode /\ ~options.release_branch_only) =>
        /\ IsPrefix(ReleaseStepTrace, TwoStepsPerComponent)
        /\ (outcome = "ok" => ReleaseStepTrace = TwoStepsPerComponent)

\* ---------------------------------------------------------------- C2

\* C2: a build-tool invocation that exited non-zero is the last subprocess of
\* the run: the script has ended with the CalledProcessError, and nothing was
\* spawned after it (no later step, component or phase, and no retry).
C2_BuildFailureEndsRun ==
    \A i \in 1..Len(calls) :
        (IsMvn(calls[i]) /\ Failed(calls[i])) =>
            /\ i = Len(calls)
            /\ pc = "done"
            /\ outcome = "CalledProcessError"

\* perform-release has failed on project-B, the second of three components.
C2_Witness ==
    /\ Len(components) = 3
    /\ Len(calls) = 4
    /\ Lifecycle(calls[4]) = "perform-release"
    /\ PomOf(calls[4]) = PomPath(<<"project-B">>)
    /\ Failed(calls[4])
    /\ pc = "done"

\* ---------------------------------------------------------------- C3

\* C3: in test mode no subprocess is ever a deploy build (clean deploy), in
\* any phase.
C3_NoDeployInTestMode ==
    options.test_mode => \A i \in 1..Len(calls) : Lifecycle(calls[i]) # "deploy"

\* A test-mode run over three components has ended without failure, having
\* been through deploy_component after the branch creation and after each
\* version update.
C3_Witness ==
    /\ options.test_mode
    /\ outcome = "ok"
    /\ ~options.no_release_branch
    /\ ~options.release_branch_only
    /\ Len(components) = 3
    /\ \E i \in 1..Len(calls) : Lifecycle(calls[i]) = "update-versions"

\* ---------------------------------------------------------------- C4

\* C4 as stated: in test mode every subprocess, of the build tool and of the
\* version-control tool, has -DpushChanges=false among its arguments.
C4_EveryInvocationCarriesNoPush ==
    options.test_mode => \A i \in 1..Len(calls) : HasToken(calls[i], PUSH_CHANGES_FALSE)

\* C4 as amended: in test mode every build-tool subprocess has
\* -DpushChanges=false among its arguments, in both phases; the
\* version-control subprocesses (nearest tag, current branch, checkout)
\* do not.
C4_BuildInvocationsCarryNoPush ==
    options.test_mode =>
        \A i \in 1..Len(calls) :
            /\ IsMvn(calls[i]) => HasToken(calls[i], PUSH_CHANGES_FALSE)
            /\ IsGit(calls[i]) => ~HasToken(calls[i], PUSH_CHANGES_FALSE)

\* A test-mode run has been through both phases: build-tool and
\* version-control subprocesses have all run.
C4_Witness ==
    /\ options.test_mode
    /\ outcome = "ok"
    /\ \E i \in 1..Len(calls) : Lifecycle(calls[i]) = "perform-release"
    /\ \E i \in 1..Len(calls) : Lifecycle(calls[i]) = "nearest-tag"
    /\ \E i \in 1..Len(calls) : Lifecycle(calls[i]) = "checkout"
    /\ \E i \in 1..Len(calls) : Lifecycle(calls[i]) = "update-versions"

\* ---------------------------------------------------------------- C5

\* The place of a component in the full list, 0 for a stranger
PlaceIn(list, c) == IF \E i \in 1..Len(list) : list[i] = c
                    THEN CHOOSE i \in 1..Len(list) : list[i] = c
                    ELSE 0

\* C5: once the working set is selected it is [X] when only=X is set
\* (whatever start_from is, wherever X stands); else, when start_from=Y is
\* set, the suffix of the full list from Y's place to the end; else the full
\* list. Components of the full list keep their relative order in it, and
\* the full list itself is never changed.
C5_FirstMatchSelection ==
    /\ all_components = ALL_COMPONENTS
    /\ Selected =>
        /\ IsSet(options.only) => components = <<options.only[1]>>
        /\ (~IsSet(options.only) /\ IsSet(options.start_from)) =>
              \E i \in 1..Len(ALL_COMPONENTS) :
                  /\ ALL_COMPONENTS[i] = options.start_from[1]
                  /\ components = SubSeq(ALL_COMPONENTS, i, Len(ALL_COMPONENTS))
        /\ (~IsSet(options.only) /\ ~IsSet(options.start_from)) => components = ALL_COMPONENTS
        /\ \A i, j \in 1..Len(components) :
              (i < j /\ PlaceIn(ALL_COMPONENTS, components[i]) > 0
                     /\ PlaceIn(ALL_COMPONENTS, components[j]) > 0)
              => PlaceIn(ALL_COMPONENTS, components[i]) < PlaceIn(ALL_COMPONENTS, components[j])

\* The working set was selected with only=project-C and start_from=project-B
\* both set.
C5_Witness ==
    /\ Selected
    /\ options.only = Some(<<"project-C">>)
    /\ options.start_from = Some(<<"project-B">>)
    /\ components = << <<"project-C">> >>

\* ---------------------------------------------------------------- C6

\* start_from names a component that is not in the full list.
StartFromAbsent ==
    /\ IsSet(options.start_from)
    /\ \A i \in 1..Len(ALL_COMPONENTS) : ALL_COMPONENTS[i] # options.start_from[1]

\* C6 as stated: whenever start_from names an absent component, no
\* subprocess is ever spawned, the run does not end well, and a run that got
\* past option resolution ends with the lookup error.
C6_AbsentStartFromAlwaysFails ==
    StartFromAbsent =>
        /\ calls = <<>>
        /\ outcome # "ok"
        /\ (pc = "done" /\ outcome # "ValueError: parse_options") => outcome = "ValueError: list.index"

\* C6 as amended: whenever only is not set and start_from names an absent
\* component, no working set is selected, no subprocess is ever spawned, and
\* a run that got past option resolution ends with the lookup error.
C6_AbsentStartFromFailsUnlessOnly ==
    (StartFromAbsent /\ ~IsSet(options.only)) =>
        /\ calls = <<>>
        /\ components = <<>>
        /\ outcome # "ok"
        /\ (pc = "done" /\ outcome # "ValueError: parse_options") => outcome = "ValueError: list.index"

\* The run has ended with the lookup error of an absent start_from.
C6_Witness ==
    /\ StartFromAbsent
    /\ ~IsSet(options.only)
    /\ pc = "done"
    /\ outcome = "ValueError: list.index"

\* ---------------------------------------------------------------- C7

\* C7: whenever dev_version is supplied and does not end with '-SNAPSHOT',
\* the script never gets past parse_options: it ends there with the
\* configuration error, with no working set and no subprocess spawned,
\* whatever the other options are.
C7_BadDevVersionFailsFirst ==
    (IsSet(options.dev_version)
     /\ options.dev_version[1][Len(options.dev_version[1])] # "-SNAPSHOT") =>
        /\ calls = <<>>
        /\ components = <<>>
        /\ pc \in {"parse_options", "done"}
        /\ pc = "done" => outcome = "ValueError: parse_options"

\* The run has ended in parse_options on a development version that has the
\* marker, but not at its end, with every other option set to go on.
C7_Witness ==
    /\ options.dev_version = Some(<<"1.5.0", "-SNAPSHOT", ".2">>)
    /\ ~options.release_branch_only
    /\ ~options.no_release_branch
    /\ options.only = None
    /\ options.start_from = None
    /\ pc = "done"
    /\ outcome = "ValueError: parse_options"

\* ---------------------------------------------------------------- C8

BranchPhaseCalls ==
    SelectSeq(calls, LAMBDA c : Lifecycle(c) \in {"branch", "checkout", "update-versions"})

\* The k-th subprocess of the branch phase is the one release.py's order asks for.
BranchPhaseCallInPlace(k) ==
    LET sel == BranchPhaseCalls
    IN  CASE k = 1 -> /\ Lifecycle(sel[1]) = "branch"
                      /\ PomOf(sel[1]) = PomPath(components[1])
          [] k = 2 -> /\ Lifecycle(sel[2]) = "checkout"
                      /\ ~Failed(sel[1])
                      /\ HasToken(sel[1], <<"-DbranchName", "=">> \o sel[2].argv[3])
          [] OTHER -> /\ Lifecycle(sel[k]) = "update-versions"
                      /\ ~Failed(sel[2])
                      /\ k - 1 <= Len(components)
                      /\ PomOf(sel[k]) = PomPath(components[k - 1])

\* C8: when branch creation is not disabled, the branch-creation,
\* checkout and version-update subprocesses spawned so far are always the
\* beginning of: branch creation for the first component of the working
\* set, checkout of the branch that creation named, then version-update for
\* the second component, the third, and so on; a run that ends without
\* failure has spawned all of them, each exactly once.
C8_BranchThenCheckoutThenUpdates ==
    ~options.no_release_branch =>
        /\ \A k \in 1..Len(BranchPhaseCalls) : BranchPhaseCallInPlace(k)
        /\ outcome = "ok" => Len(BranchPhaseCalls) = Len(components) + 1

\* A run over three components has ended without failure after its branch phase.
C8_Witness ==
    /\ ~options.no_release_branch
    /\ outcome = "ok"
    /\ Len(components) = 3
    /\ Len(BranchPhaseCalls) = 4

\* ---------------------------------------------------------------- C9

ErrorNaming(component) ==
    \E k \in 1..Len(log) : log[k].level = "ERROR" /\ log[k].subject = component

\* C9 as stated: whenever a subprocess of either tool has exited non-zero,
\* the run has ended with the failure and the log holds an error naming the
\* component that was being processed.
C9_EveryFailureLogged ==
    \A i \in 1..Len(calls) :
        Failed(calls[i]) =>
            /\ pc = "done" /\ outcome = "CalledProcessError"
            /\ ErrorNaming(calls[i].component)

\* C9 as amended: whenever a build-tool subprocess has exited non-zero, the
\* run has ended with the failure and the last record of the log is an error
\* naming the component that was being processed; whenever a version-control
\* subprocess (nearest tag, current branch, checkout) has exited non-zero,
\* the run has ended with the failure and no error was logged.
C9_BuildFailureLogged ==
    \A i \in 1..Len(calls) :
        Failed(calls[i]) =>
            /\ pc = "done" /\ outcome = "CalledProcessError"
            /\ IsMvn(calls[i]) =>
                  /\ log # <<>>
                  /\ log[Len(log)].level = "ERROR"
                  /\ log[Len(log)].subject = calls[i].component
                  /\ PomOf(calls[i]) = PomPath(calls[i].component)
            /\ IsGit(calls[i]) => \A k \in 1..Len(log) : log[k].level # "ERROR"

\* The version-update of project-C has failed in the branch phase.
C9_Witness ==
    /\ calls # <<>>
    /\ Failed(calls[Len(calls)])
    /\ Lifecycle(calls[Len(calls)]) = "update-versions"
    /\ calls[Len(calls)].component = <<"project-C">>

\* --------------------------------------------------------------- C10

\* C10: every module-level template list (MVN_* and GIT_*) always equals
\* its initial value, in test mode and in production mode, whatever steps
\* have run.
C10_TemplatesUnchanged == templates = InitialTemplates

\* A production-mode run through both phases has ended without failure,
\* perform_release having appended both version arguments, and deploy,
\* branch creation, checkout and version-update having run.
C10_Witness ==
    /\ ~options.test_mode
    /\ outcome = "ok"
    /\ \E i \in 1..Len(calls) :
          /\ Lifecycle(calls[i]) = "perform-release"
          /\ HasToken(calls[i], <<"-DdevelopmentVersion", "=", "1.5.0", "-SNAPSHOT">>)
          /\ HasToken(calls[i], <<"-DreleaseVersion", "=", "1.4.2">>)
    /\ \E i \in 1..Len(calls) : Lifecycle(calls[i]) = "deploy"
    /\ \E i \in 1..Len(calls) : Lifecycle(calls[i]) = "checkout"
    /\ \E i \in 1..Len(calls) : Lifecycle(calls[i]) = "update-versions"

\* --------------------------------------------------------------- C11

\* The value of the argument -D<flag>=<value> of a command line
TokenValue(call, flag) ==
    LET k == CHOOSE k \in 1..Len(call.argv) : call.argv[k] # <<>> /\ call.argv[k][1] = flag
    IN  SubSeq(call.argv[k], 3, Len(call.argv[k]))

\* The version-update calls[j] tracks the branch that calls[i] created: its
\* development version is that branch's version, and every <tag> element of
\* its component's descriptor holds that branch's name.
TracksBranch(i, j) ==
    /\ TokenValue(calls[j], "-DdevelopmentVersion") = TokenValue(calls[i], "-DreleaseVersion")
    /\ \A t \in 1..Len(poms[calls[j].component]) :
          poms[calls[j].component][t] = TokenValue(calls[i], "-DbranchName")

\* C11: within one run, every version-update of a remaining component uses
\* the release branch that was created from the first component: the branch
\* name written into its descriptor's <tag> element and the development
\* version passed to the build tool are those of the branch creation, for
\* every component, with and without an explicit release version.
C11_UpdatesTrackCreatedBranch ==
    \A i, j \in 1..Len(calls) :
        (Lifecycle(calls[i]) = "branch" /\ Lifecycle(calls[j]) = "update-versions")
        => TracksBranch(i, j)

\* What the code does guarantee (C11): with an explicit release version
\* every version-update tracks the created branch.
C11_UpdatesTrackBranchOfExplicitVersion ==
    IsSet(options.release_version) =>
        \A i, j \in 1..Len(calls) :
            (Lifecycle(calls[i]) = "branch" /\ Lifecycle(calls[j]) = "update-versions")
            => TracksBranch(i, j)

====
